---- MODULE Spec2Model ----
(***************************************************************************)
(* TrackingService (src/main.go): a gin HTTP service over a gorm/sqlite    *)
(* table of billable work sessions.                                        *)
(*                                                                         *)
(* Time is counted in ticks of half a second (Second ticks make a second), *)
(* so that the "%.0fs" rounding of a duration and the hour ceiling of the  *)
(* payment are both computed, not assumed.  The zero time.Time is 0; the   *)
(* clock starts at Epoch > 0 and never goes backwards.                     *)
(*                                                                         *)
(* What the ORM does with the calls of main.go is modelled from gorm v2    *)
(* (gorm.io/gorm), the library main.go imports:                            *)
(*   - gorm.Model embeds ID, CreatedAt, UpdatedAt and DeletedAt without    *)
(*     json tags, so encoding/json binds the request keys "ID",            *)
(*     "CreatedAt", "UpdatedAt" and "DeletedAt" to them;                   *)
(*   - Create fills CreatedAt and UpdatedAt with one reading of the clock  *)
(*     when they are zero, and stores every other field as bound;          *)
(*   - Model(&s).Update(col, v) without Unscoped() adds the soft-delete    *)
(*     condition "deleted_at IS NULL" to the WHERE clause and sets         *)
(*     updated_at from its own reading of the clock;                       *)
(*   - Unscoped().First / Find read soft-deleted rows too;                 *)
(*   - First(&s, id) with a string id takes a string that parses as a      *)
(*     number for the primary key and any other string for a raw SQL       *)
(*     condition, and adds "id = s.ID" when s already holds a row.         *)
(*                                                                         *)
(* Each SQL statement is one atomic step.  The handlers that issue a       *)
(* single statement are one action each; stopSession, which reads, reads   *)
(* the clock, writes and reads again, is four steps that interleave with   *)
(* every other handler.  Failures of the database connection itself (the   *)
(* 500 answers other than the primary-key conflict of Create) are not      *)
(* modelled.                                                               *)
(***************************************************************************)
EXTENDS Integers, Sequences, FiniteSets, TLC

VARIABLES
    db,      \* the sessions table: id -> Session row
    clock,   \* the system clock (time.Now), in ticks
    procs,   \* the in-flight PATCH /sessions/:id/stop handlers
    resp,    \* the HTTP response written by the last step (NoResp if none)
    calc     \* one evaluation of calculatePayment on free inputs (SpecPay)

vars == <<db, clock, procs, resp, calc>>

----------------------------------------------------------------------------
(* Bounds of the model *)

Second == 2            \* ticks per second
MaxSessions == 2       \* rows the table may hold (ids 1..MaxSessions)
MaxProcs == 2          \* concurrent stop handlers
MaxClock == 2          \* steps the clock takes
MaxPayHours == 3       \* SpecPay: durations range over -MaxPayHours..MaxPayHours hours

Hour == 3600 * Second
Epoch == 2 * Hour
\* one step of the clock: half an hour and half a second
ClockStep == Hour \div 2 + 1

Ids == 1..MaxSessions
\* the :id path parameter, a string: the decimal ids, a condition that is true
\* of every row, and a string that is no SQL condition at all
Params == {ToString(i) : i \in Ids} \cup {"1=1", "abc"}
Procs == 1..MaxProcs

----------------------------------------------------------------------------
(* Data *)

\* gorm.DeletedAt (sql.NullTime): Valid = FALSE is SQL NULL
NullTime == [Time |-> 0, Valid |-> FALSE]
ValidTime(t) == [Time |-> t, Valid |-> TRUE]

\* a request body with the three documented fields only
PlainBody(title, category, rate) ==
    [ID |-> 0, CreatedAt |-> 0, UpdatedAt |-> 0, DeletedAt |-> NullTime,
     Title |-> title, Category |-> category, Rate |-> rate]

\* what ShouldBindJSON decodes into newSession: the documented fields, valid
\* or not, and bodies that also carry a field of the embedded gorm.Model
\* (a primary key, a creation time in the future, a deletion time in the past)
Bodies ==
    {PlainBody("a", "b", 2), PlainBody("", "", -1)}
    \cup {[PlainBody("a", "b", 2) EXCEPT !.ID = i] : i \in 1..MaxSessions}
    \cup {[PlainBody("a", "b", 2) EXCEPT !.CreatedAt = Epoch + 3 * Hour],
          [PlainBody("a", "b", 2) EXCEPT !.DeletedAt = ValidTime(Epoch - Hour)]}

\* line is the source line of the c.IndentedJSON call that wrote the response
\* param is the :id path parameter of the request, id the row answered with
NoResp == [op |-> "none", param |-> "", id |-> 0, status |-> 0, line |-> 0,
           views |-> <<>>]
\* now and now2 are the system times of a first and a second call on the
\* same arguments
NoCalc == [rate |-> 0, start |-> 0, end |-> NullTime, now |-> 0,
           payment |-> 0, done |-> FALSE,
           now2 |-> 0, payment2 |-> 0, again |-> FALSE]

\* SpecPay: the arguments calculatePayment is evaluated on
PayRates == {0, 1, 3}
PayOffsets == {-5 * Second, 0, 1, Hour \div 2}
PayDurations == {h * Hour + o : h \in (0 - MaxPayHours)..MaxPayHours, o \in PayOffsets}
PayStart == (MaxPayHours + 1) * Hour
IdleProc == [pc |-> "idle", param |-> "", id |-> 0, now |-> 0]

----------------------------------------------------------------------------
(* Pure functions *)

\* math.Ceil(a / b) for b > 0, as an integer
CeilDiv(a, b) == -((-a) \div b)

\* a slip: the hour that is always charged is left out
calculatePaymentNoFirstHour(rate, start, end, now) ==
    LET elapsed == IF end.Valid THEN end.Time - start ELSE now - start
        billableHours == CeilDiv(elapsed, Hour)
    IN  billableHours * rate

\* a slip: the end time is ignored, the duration always runs to the present
calculatePaymentAlwaysSince(rate, start, end, now) ==
    LET elapsed == now - start
        billableHours == CeilDiv(elapsed, Hour)
    IN  (billableHours + 1) * rate

\* a slip: the operands of the subtraction are exchanged
calculatePaymentReversed(rate, start, end, now) ==
    LET elapsed == IF end.Valid THEN start - end.Time ELSE start - now
        billableHours == CeilDiv(elapsed, Hour)
    IN  (billableHours + 1) * rate

\* now is the reading of time.Since's clock, used when end is nil
calculatePayment(rate, start, end, now) ==
    LET elapsed == IF end.Valid THEN end.Time - start ELSE now - start
        billableHours == CeilDiv(elapsed, Hour)
    IN  (billableHours + 1) * rate

\* round m >= 0 ticks to whole seconds, ties to even, as %.0f does
RoundSeconds(m) ==
    LET q == m \div Second
        r == m % Second
    IN  IF 2 * r < Second THEN q
        ELSE IF 2 * r > Second THEN q + 1
        ELSE IF q % 2 = 0 THEN q ELSE q + 1

\* fmt.Sprintf("%.0fs", duration.Seconds())
FormatDuration(d) ==
    IF d < 0 THEN ("-" \o ToString(RoundSeconds(-d))) \o "s"
    ELSE ToString(RoundSeconds(d)) \o "s"

\* a slip: the duration is formatted for a running session too
toResponseAlwaysDuration(s, now) ==
    [ID |-> s.ID, CreatedAt |-> s.CreatedAt, UpdatedAt |-> s.UpdatedAt,
     DeletedAt |-> s.DeletedAt, Title |-> s.Title, Category |-> s.Category,
     Payment |-> calculatePayment(s.Rate, s.CreatedAt, s.DeletedAt, now),
     Duration |-> FormatDuration((IF s.DeletedAt.Valid THEN s.DeletedAt.Time ELSE now)
                                 - s.CreatedAt)]

toResponse(s, now) ==
    LET end == s.DeletedAt
        payment == calculatePayment(s.Rate, s.CreatedAt, end, now)
    IN  [ID |-> s.ID, CreatedAt |-> s.CreatedAt, UpdatedAt |-> s.UpdatedAt,
         DeletedAt |-> end, Title |-> s.Title, Category |-> s.Category,
         Payment |-> payment,
         Duration |-> IF end.Valid THEN FormatDuration(end.Time - s.CreatedAt)
                      ELSE ""]

----------------------------------------------------------------------------
(* The store *)

MaxOf(S) == IF S = {} THEN 0 ELSE CHOOSE m \in S : \A n \in S : n <= m

\* the rows in rowid order, as Unscoped().Find returns them
RECURSIVE SortedIds(_)
SortedIds(S) ==
    IF S = {} THEN <<>>
    ELSE LET m == CHOOSE x \in S : \A y \in S : x <= y
         IN  <<m>> \o SortedIds(S \ {m})

\* strconv.Atoi(param) succeeds
IsNumber(param) == \E i \in Ids : ToString(i) = param
\* the string is a condition SQLite can evaluate
IsCondition(param) == param = "1=1"
\* the rows the WHERE clause built from the parameter matches
Matching(d, param) ==
    IF IsNumber(param) THEN {i \in DOMAIN d : ToString(i) = param}
    ELSE IF IsCondition(param) THEN DOMAIN d
    ELSE {}
\* Unscoped().First(&s, param) fails with an error other than ErrRecordNotFound
FirstFails(param) == ~IsNumber(param) /\ ~IsCondition(param)
\* the id of the row Unscoped().First(&s, param) loads when s.ID = pk (0: s is
\* empty): the first match in primary-key order, 0 for ErrRecordNotFound
FirstId(d, param, pk) ==
    LET m == {i \in Matching(d, param) : pk = 0 \/ i = pk}
    IN  IF m = {} THEN 0 ELSE CHOOSE i \in m : \A j \in m : i <= j

\* the primary key db.Create inserts: the bound ID, or the next rowid
NewId(d, body) == IF body.ID # 0 THEN body.ID ELSE MaxOf(DOMAIN d) + 1

\* the row db.Create writes (and writes back into newSession)
NewRow(d, body, cur) ==
    [ID |-> NewId(d, body),
     CreatedAt |-> IF body.CreatedAt = 0 THEN cur ELSE body.CreatedAt,
     UpdatedAt |-> IF body.UpdatedAt = 0 THEN cur ELSE body.UpdatedAt,
     DeletedAt |-> body.DeletedAt,
     Title |-> body.Title, Category |-> body.Category, Rate |-> body.Rate]

Insert(d, row) ==
    [i \in DOMAIN d \cup {row.ID} |-> IF i = row.ID THEN row ELSE d[i]]

\* a slip: Unscoped() on the update drops "deleted_at IS NULL"
UpdateUnscoped(d, id, now, cur) ==
    IF id \in DOMAIN d
    THEN [d EXCEPT ![id].DeletedAt = ValidTime(now), ![id].UpdatedAt = cur]
    ELSE d

\* a slip: the update of a stopped row clears deleted_at (a toggle)
UpdateToggle(d, id, now, cur) ==
    IF id \notin DOMAIN d THEN d
    ELSE IF d[id].DeletedAt.Valid
    THEN [d EXCEPT ![id].DeletedAt = NullTime, ![id].UpdatedAt = cur]
    ELSE [d EXCEPT ![id].DeletedAt = ValidTime(now), ![id].UpdatedAt = cur]

\* a slip: the update of a stopped row still refreshes updated_at
UpdateTouch(d, id, now, cur) ==
    IF id \notin DOMAIN d THEN d
    ELSE IF d[id].DeletedAt.Valid
    THEN [d EXCEPT ![id].UpdatedAt = cur]
    ELSE [d EXCEPT ![id].DeletedAt = ValidTime(now), ![id].UpdatedAt = cur]

\* a slip: UpdateColumn, which leaves updated_at alone
UpdateColumn(d, id, now, cur) ==
    IF id \in DOMAIN d /\ ~d[id].DeletedAt.Valid
    THEN [d EXCEPT ![id].DeletedAt = ValidTime(now)]
    ELSE d

\* a slip: the WHERE clause loses the primary key, every running row is stopped
UpdateAllRows(d, id, now, cur) ==
    [i \in DOMAIN d |->
        IF ~d[i].DeletedAt.Valid
        THEN [d[i] EXCEPT !.DeletedAt = ValidTime(now), !.UpdatedAt = cur]
        ELSE d[i]]

\* a slip: the update names a column that is not deleted_at
UpdateOtherColumn(d, id, now, cur) ==
    IF id \in DOMAIN d /\ ~d[id].DeletedAt.Valid
    THEN [d EXCEPT ![id].UpdatedAt = cur]
    ELSE d

\* UPDATE sessions SET deleted_at = now, updated_at = cur
\*   WHERE id = ? AND deleted_at IS NULL
\* (cur is the ORM's own reading of the clock; no row matched is no error)
Update(d, id, now, cur) ==
    IF id \in DOMAIN d /\ ~d[id].DeletedAt.Valid
    THEN [d EXCEPT ![id].DeletedAt = ValidTime(now), ![id].UpdatedAt = cur]
    ELSE d

----------------------------------------------------------------------------
(* Handlers *)

Respond(op, param, id, status, line, views) ==
    resp' = [op |-> op, param |-> param, id |-> id, status |-> status,
             line |-> line, views |-> views]

\* time passes
Tick ==
    /\ clock < Epoch + MaxClock * ClockStep
    /\ clock' = clock + ClockStep
    /\ resp' = NoResp
    /\ UNCHANGED <<db, procs, calc>>

\* a slip: Find without Unscoped(), which hides the soft-deleted rows
getSessionsScoped ==
    /\ Respond("list", "", 0, 200, 123,
               LET ids == SortedIds({i \in DOMAIN db : ~db[i].DeletedAt.Valid})
               IN  [i \in 1..Len(ids) |-> toResponse(db[ids[i]], clock)])
    /\ UNCHANGED <<db, clock, procs, calc>>

\* GET /sessions
getSessions ==
    /\ Respond("list", "", 0, 200, 123,
               LET ids == SortedIds(DOMAIN db)
               IN  [i \in 1..Len(ids) |-> toResponse(db[ids[i]], clock)])
    /\ UNCHANGED <<db, clock, procs, calc>>

\* POST /sessions with a body that does not parse
postSessionsBadBody ==
    /\ Respond("create", "", 0, 400, 129, <<>>)
    /\ UNCHANGED <<db, clock, procs, calc>>

\* POST /sessions
postSessions(body) ==
    /\ NewId(db, body) \in Ids
    /\ IF NewId(db, body) \in DOMAIN db
       THEN \* UNIQUE constraint failed: sessions.id
            /\ Respond("create", "", body.ID, 500, 134, <<>>)
            /\ UNCHANGED db
       ELSE LET newSession == NewRow(db, body, clock)
            IN  /\ db' = Insert(db, newSession)
                /\ Respond("create", "", newSession.ID, 201, 138,
                           <<toResponse(newSession, clock)>>)
    /\ UNCHANGED <<clock, procs, calc>>

\* GET /sessions/:id
getSessionByID(param) ==
    /\ LET id == FirstId(db, param, 0)
       IN  IF FirstFails(param)
           THEN Respond("get", param, 0, 500, 149, <<>>)
           ELSE IF id = 0
           THEN Respond("get", param, 0, 404, 147, <<>>)
           ELSE Respond("get", param, id, 200, 154, <<toResponse(db[id], clock)>>)
    /\ UNCHANGED <<db, clock, procs, calc>>

\* PATCH /sessions/:id/stop, lines 158-173: read the row, answer if the read
\* fails, if no row is found or if the row is already stopped
stopRead(p, param) ==
    /\ procs[p].pc = "idle"
    /\ LET id == FirstId(db, param, 0)
       IN  IF FirstFails(param)
           THEN /\ Respond("stop", param, 0, 500, 165, <<>>)
                /\ UNCHANGED procs
           ELSE IF id = 0
           THEN /\ Respond("stop", param, 0, 404, 163, <<>>)
                /\ UNCHANGED procs
           ELSE IF db[id].DeletedAt.Valid
           THEN /\ Respond("stop", param, id, 200, 171, <<toResponse(db[id], clock)>>)
                /\ UNCHANGED procs
           ELSE /\ procs' = [procs EXCEPT ![p] =
                                [pc |-> "now", param |-> param, id |-> id, now |-> 0]]
                /\ resp' = NoResp
    /\ UNCHANGED <<db, clock, calc>>

\* line 175: now := time.Now()
stopNow(p) ==
    /\ procs[p].pc = "now"
    /\ procs' = [procs EXCEPT ![p].pc = "update", ![p].now = clock]
    /\ resp' = NoResp
    /\ UNCHANGED <<db, clock, calc>>

\* line 176: db.Model(&s).Update("deleted_at", now); now is dead afterwards
stopUpdate(p) ==
    /\ procs[p].pc = "update"
    /\ db' = Update(db, procs[p].id, procs[p].now, clock)
    /\ procs' = [procs EXCEPT ![p].pc = "reread", ![p].now = 0]
    /\ resp' = NoResp
    /\ UNCHANGED <<clock, calc>>

\* lines 181-186: read the row again, into the s that holds it, and answer
stopReread(p) ==
    /\ procs[p].pc = "reread"
    /\ LET id == FirstId(db, procs[p].param, procs[p].id)
       IN  IF id = 0
           THEN Respond("stop", procs[p].param, 0, 500, 182, <<>>)
           ELSE Respond("stop", procs[p].param, id, 200, 186,
                        <<toResponse(db[id], clock)>>)
    /\ procs' = [procs EXCEPT ![p] = IdleProc]
    /\ UNCHANGED <<db, clock, calc>>

Init ==
    /\ db = <<>>
    /\ clock = Epoch
    /\ procs = [p \in Procs |-> IdleProc]
    /\ resp = NoResp
    /\ calc = NoCalc

Next ==
    \/ Tick
    \/ getSessions
    \/ postSessionsBadBody
    \/ \E body \in Bodies : postSessions(body)
    \/ \E param \in Params : getSessionByID(param)
    \/ \E p \in Procs, param \in Params : stopRead(p, param)
    \/ \E p \in Procs : stopNow(p)
    \/ \E p \in Procs : stopUpdate(p)
    \/ \E p \in Procs : stopReread(p)

Spec == Init /\ [][Next]_vars

----------------------------------------------------------------------------
(* calculatePayment on its own: every argument drawn from a bounded set *)

InitPay ==
    /\ db = <<>>
    /\ clock = Epoch
    /\ procs = [p \in Procs |-> IdleProc]
    /\ resp = NoResp
    /\ \E r \in PayRates,
          e \in {NullTime} \cup {ValidTime(PayStart + d) : d \in PayDurations},
          d \in PayDurations :
            calc = [rate |-> r, start |-> PayStart, end |-> e, now |-> PayStart + d,
                    payment |-> 0, done |-> FALSE,
                    now2 |-> 0, payment2 |-> 0, again |-> FALSE]

\* one call of calculatePayment(rate, start, end), time.Since reading calc.now
callCalculatePayment ==
    /\ ~calc.done
    /\ calc' = [calc EXCEPT
                    !.payment = calculatePayment(calc.rate, calc.start, calc.end, calc.now),
                    !.done = TRUE]
    /\ UNCHANGED <<db, clock, procs, resp>>

\* a second call with the same rate, start and end, at a later system time
callCalculatePaymentAgain ==
    /\ calc.done /\ ~calc.again
    /\ \E d \in PayDurations :
          /\ PayStart + d >= calc.now
          /\ calc' = [calc EXCEPT
                          !.now2 = PayStart + d,
                          !.payment2 = calculatePayment(calc.rate, calc.start, calc.end,
                                                        PayStart + d),
                          !.again = TRUE]
    /\ UNCHANGED <<db, clock, procs, resp>>

NextPay == callCalculatePayment \/ callCalculatePaymentAgain

SpecPay == InitPay /\ [][NextPay]_vars

----------------------------------------------------------------------------
(* Properties *)

Stopped(d, id) == id \in DOMAIN d /\ d[id].DeletedAt.Valid
Running(d, id) == id \in DOMAIN d /\ ~d[id].DeletedAt.Valid
\* stopped by a stop request, not by a deletion time bound from the body
StoppedByRequest(d, id) == Stopped(d, id) /\ d[id].DeletedAt.Time >= Epoch
Max(a, b) == IF a >= b THEN a ELSE b
\* the duration calculatePayment bills in SpecPay
PayElapsed == IF calc.end.Valid THEN calc.end.Time - calc.start
              ELSE calc.now - calc.start

\* C1: once deleted_at of a session is set, no step of any handler changes or
\* clears it, and the session stays in the table: Stopped never becomes
\* Running again.
C1_StoppedAtNeverChanges ==
    [][\A id \in Ids :
          Stopped(db, id) =>
              /\ id \in DOMAIN db'
              /\ db'[id].DeletedAt = db[id].DeletedAt]_vars

\* C1 witness: a stop handler that read the session while it was Running is
\* about to run its update on it after another request has stopped it.
C1_Witness ==
    \E p \in Procs :
        /\ procs[p].pc = "update"
        /\ StoppedByRequest(db, procs[p].id)
        /\ db[procs[p].id].DeletedAt.Time # procs[p].now

\* C2: a step of a stop request on a session that is already Stopped leaves the
\* whole table unchanged (deleted_at and updated_at included), and a 200
\* response to such a request shows the stored record as it was.
C2_StopIdempotent ==
    [][/\ \A p \in Procs :
            (procs[p].pc # "idle" /\ procs'[p] # procs[p] /\ Stopped(db, procs[p].id))
                => db' = db
       /\ \A id \in Ids :
            (resp'.op = "stop" /\ resp'.id = id /\ resp'.status = 200 /\ Stopped(db, id))
                => /\ db' = db
                   /\ Len(resp'.views) = 1
                   /\ resp'.views[1].ID = id
                   /\ resp'.views[1].DeletedAt = db[id].DeletedAt
                   /\ resp'.views[1].UpdatedAt = db[id].UpdatedAt
                   /\ resp'.views[1].CreatedAt = db[id].CreatedAt]_vars

\* C2 witness: the already-stopped path (line 171) has answered a stop request
\* for a session that an earlier stop request stopped at an earlier time.
C2_Witness ==
    /\ resp.op = "stop" /\ resp.status = 200 /\ resp.line = 171
    /\ StoppedByRequest(db, resp.id)
    /\ db[resp.id].UpdatedAt < clock

\* C3: every write of deleted_at or updated_at of a stored session is the
\* Running -> Stopped transition made by the update of one stop request and
\* carries that request's own now; since the session is Stopped afterwards,
\* interleaved stop requests write it at most once and never overwrite it.
C3_AtMostOneStopWins ==
    [][\A id \in DOMAIN db :
          (id \in DOMAIN db' /\ (db'[id].DeletedAt # db[id].DeletedAt
                                 \/ db'[id].UpdatedAt # db[id].UpdatedAt))
              => /\ Running(db, id)
                 /\ Stopped(db', id)
                 /\ \E p \in Procs :
                        /\ procs[p].pc = "update" /\ procs[p].id = id
                        /\ procs'[p].pc = "reread"
                        /\ db'[id].DeletedAt = ValidTime(procs[p].now)]_vars

\* C3 witness: two stop requests for the same session have both passed the
\* test at line 170 with different readings of now, and both have run their
\* update.
C3_Witness ==
    \E p, q \in Procs :
        /\ p # q
        /\ procs[p].pc = "reread" /\ procs[q].pc = "reread"
        /\ procs[p].id = procs[q].id
        /\ StoppedByRequest(db, procs[p].id)
        /\ db[procs[p].id].UpdatedAt < clock

\* C4 (as claimed): for rate >= 0 and a duration d >= 0 the payment is
\* rate * max(1, ceil(d / 1 hour)).
C4_PaymentCeilMinOne ==
    (calc.done /\ calc.rate >= 0 /\ PayElapsed >= 0)
        => calc.payment = calc.rate * Max(1, CeilDiv(PayElapsed, Hour))

\* C5: for a duration of exactly zero the billable hours are 1 and the payment
\* equals the rate.
C5_ZeroDurationBillsOneHour ==
    (calc.done /\ PayElapsed = 0) => calc.payment = 1 * calc.rate

\* C5 witness: calculatePayment has been evaluated with a positive rate for a
\* running session whose clock reading equals its creation time.
C5_Witness ==
    calc.done /\ PayElapsed = 0 /\ calc.rate > 0 /\ ~calc.end.Valid

\* C6 (as claimed): for rate >= 0 and an end time before createdAt the
\* duration counts as 0: the payment equals the rate and is not negative.
C6_NegativeDurationClamped ==
    (calc.done /\ calc.rate >= 0 /\ PayElapsed < 0)
        => (calc.payment = calc.rate /\ calc.payment >= 0)

\* C7 (as claimed): every stored session that has deleted_at has
\* deleted_at >= created_at.
C7_StoppedAtNotBeforeCreatedAt ==
    \A id \in DOMAIN db :
        db[id].DeletedAt.Valid => db[id].DeletedAt.Time >= db[id].CreatedAt

\* C8 (as claimed): after a successful create the stored record has no
\* deleted_at and the 201 response carries no stop time and no duration.
C8_CreatedRunning ==
    (resp.op = "create" /\ resp.status = 201)
        => /\ Running(db, resp.id)
           /\ ~resp.views[1].DeletedAt.Valid
           /\ resp.views[1].Duration = ""

\* C9 (as claimed): a session stopped by a stop request has
\* deleted_at = updated_at, the current time of that request.
C9_StoppedAtEqualsUpdatedAt ==
    \A id \in DOMAIN db :
        StoppedByRequest(db, id) => db[id].UpdatedAt = db[id].DeletedAt.Time

\* C9 (amended): the update of a stop request on a Running session sets
\* deleted_at to the time the request read at line 175 and updated_at to the
\* time of the write itself, which is not earlier: deleted_at <= updated_at.
C9_StopSetsTimes ==
    [][\A p \in Procs :
          (procs[p].pc = "update" /\ procs'[p].pc = "reread" /\ Running(db, procs[p].id))
              => /\ db'[procs[p].id].DeletedAt = ValidTime(procs[p].now)
                 /\ db'[procs[p].id].UpdatedAt = clock
                 /\ db'[procs[p].id].DeletedAt.Time <= db'[procs[p].id].UpdatedAt]_vars

\* C9 witness: a session was stopped by a request whose write came later than
\* its reading of now.
C9_Witness ==
    \E id \in DOMAIN db :
        StoppedByRequest(db, id) /\ db[id].DeletedAt.Time < db[id].UpdatedAt

\* C10: in every view a handler returns, the duration is non-empty exactly
\* when the session is Stopped and is then the rounded number of seconds of
\* deleted_at - created_at followed by "s"; the payment is the one
\* calculatePayment gives, against the current time for a Running session.
C10_DurationIffStopped ==
    \A i \in 1..Len(resp.views) :
        LET v == resp.views[i]
            s == db[v.ID]
        IN  /\ v.DeletedAt = s.DeletedAt
            /\ (v.Duration # "") <=> s.DeletedAt.Valid
            /\ s.DeletedAt.Valid =>
                   LET d == s.DeletedAt.Time - s.CreatedAt
                       secs == RoundSeconds(IF d < 0 THEN 0 - d ELSE d)
                   IN  /\ v.Duration = (IF d < 0 THEN "-" ELSE "") \o ToString(secs) \o "s"
                       /\ 2 * Second * secs - 2 * (IF d < 0 THEN 0 - d ELSE d) \in (0 - Second)..Second
            /\ v.Payment = (CeilDiv((IF s.DeletedAt.Valid THEN s.DeletedAt.Time ELSE clock)
                                    - s.CreatedAt, Hour) + 1) * s.Rate

\* C10 witness: one list response shows a Running session, with an empty
\* duration, beside a Stopped one, with its duration.
C10_Witness ==
    /\ resp.op = "list"
    /\ \E i, j \in 1..Len(resp.views) :
          /\ ~resp.views[i].DeletedAt.Valid /\ resp.views[i].Duration = ""
          /\ resp.views[j].DeletedAt.Valid /\ resp.views[j].Duration = "1800s"

\* the path parameter is the decimal id of a stored session
ParamInStore(d, param) == \E i \in DOMAIN d : ToString(i) = param
\* the ids of the views of a response
ViewIds(r) == {r.views[i].ID : i \in 1..Len(r.views)}

\* C11: no step removes a session from the table, a get-by-id for the id of a
\* stored session answers 200 with that session, and a list answers with
\* every stored session, Running or Stopped.
C11_NoSessionLost ==
    [][/\ \A id \in DOMAIN db : id \in DOMAIN db'
       /\ \A id \in DOMAIN db :
            (resp'.op = "get" /\ resp'.param = ToString(id))
                => (resp'.status = 200 /\ ViewIds(resp') = {id})
       /\ resp'.op = "list"
            => (resp'.status = 200 /\ ViewIds(resp') = DOMAIN db
                /\ Len(resp'.views) = Cardinality(DOMAIN db))]_vars

\* C11 witness: a list answers with a session that a stop request stopped
\* earlier, beside another session.
C11_Witness ==
    /\ resp.op = "list"
    /\ Len(resp.views) = 2
    /\ \E id \in ViewIds(resp) : StoppedByRequest(db, id) /\ db[id].UpdatedAt < clock

\* C13 (as claimed): every stored session has rate >= 0 and a non-empty title
\* and category.
C13_StoredFieldsValid ==
    \A id \in DOMAIN db :
        db[id].Rate >= 0 /\ db[id].Title # "" /\ db[id].Category # ""

\* C14: a step of a stop request leaves the set of sessions as it is, leaves
\* every session but the one it addresses unchanged, and changes at most
\* deleted_at and updated_at of that one.
C14_StopFrame ==
    [][\A p \in Procs :
          (procs'[p] # procs[p] \/ resp'.op = "stop")
              => /\ DOMAIN db' = DOMAIN db
                 /\ \A id \in DOMAIN db :
                        IF procs[p].pc # "idle" /\ procs'[p] # procs[p] /\ id = procs[p].id
                        THEN db'[id] = [db[id] EXCEPT !.DeletedAt = db'[id].DeletedAt,
                                                      !.UpdatedAt = db'[id].UpdatedAt]
                        ELSE db'[id] = db[id]]_vars

\* C14 witness: a stop request has stopped one of two stored sessions, at a
\* time later than its creation, and the other one is Running.
C14_Witness ==
    \E p \in Procs, other \in DOMAIN db :
        /\ procs[p].pc = "reread"
        /\ StoppedByRequest(db, procs[p].id)
        /\ db[procs[p].id].UpdatedAt > db[procs[p].id].CreatedAt
        /\ other # procs[p].id
        /\ Running(db, other)

\* C16: every 200 response of a stop request shows one session, Stopped, with
\* its stop time and a non-empty duration.
C16_StopResponseShowsStopped ==
    (resp.op = "stop" /\ resp.status = 200)
        => /\ Len(resp.views) = 1
           /\ resp.views[1].ID = resp.id
           /\ resp.views[1].DeletedAt.Valid
           /\ resp.views[1].Duration # ""
           /\ Stopped(db, resp.id)

\* C16 witness: a stop request answers at line 186 while another stop request
\* for the same session, which also found it Running, has run its update too:
\* one of the two lost the race.
C16_Witness ==
    /\ resp.op = "stop" /\ resp.status = 200 /\ resp.line = 186
    /\ \E q \in Procs : procs[q].pc = "reread" /\ procs[q].id = resp.id

\* C17 (as claimed): a stop or get-by-id request whose id is not the id of a
\* stored session answers 404 and leaves the table unchanged; a stop handler
\* does not go past its read with such an id.
C17_UnknownIdNotFound ==
    [][/\ (resp'.op \in {"get", "stop"} /\ ~ParamInStore(db, resp'.param))
            => (resp'.status = 404 /\ db' = db)
       /\ \A p \in Procs :
            (procs'[p] # procs[p] /\ procs'[p].pc # "idle")
                => ParamInStore(db, procs'[p].param)]_vars

\* C12 (as claimed): two calls of calculatePayment with the same rate, the
\* same createdAt and the same (possibly absent) stoppedAt return the same
\* payment, whatever the system time of each call.
C12_PaymentIgnoresSystemTime ==
    calc.again => calc.payment2 = calc.payment

\* the times the clock of Spec shows
ClockTimes == {Epoch + k * ClockStep : k \in 0..MaxClock}

\* C15: every view a handler returns of a session that was already Stopped
\* shows the payment and the duration a view of it shows at any other time.
C15_StoppedViewFrozen ==
    [][\A i \in 1..Len(resp'.views) :
          LET v == resp'.views[i]
          IN  Stopped(db, v.ID) =>
                  \A t \in ClockTimes :
                      /\ v.Payment = toResponse(db[v.ID], t).Payment
                      /\ v.Duration = toResponse(db[v.ID], t).Duration]_vars

\* C15 witness: a get-by-id shows a session more than an hour after a stop
\* request stopped it.
C15_Witness ==
    /\ resp.op = "get" /\ resp.status = 200
    /\ StoppedByRequest(db, resp.id)
    /\ clock - db[resp.id].DeletedAt.Time > Hour

\* the payment a view of the stored session id shows at time t
ViewPayment(d, id, t) == toResponse(d[id], t).Payment

====
